---- MODULE Spec2Model ----
(***************************************************************************)
(* A model of gemini-mcp-rs's subprocess streaming aggregator              *)
(* (src/src/gemini.rs): request validation, spawn, the two-stream drain    *)
(* loop, the event interpreter, exit-status handling, the final validation *)
(* and the deadline.  Text is modelled by TLA+ strings (ASCII, so that a   *)
(* string's length is its length in bytes); Option<T> is modelled by a     *)
(* sequence of length 0 (None) or 1 (Some).                                *)
(***************************************************************************)
EXTENDS Integers, Sequences, FiniteSets, TLC

(***************************************************************************)
(* Program constants, gemini.rs lines 9-24.                                *)
(***************************************************************************)
PROMPT_DEPRECATION_WARNING == "The --prompt (-p) flag has been deprecated"
KEY_SESSION_ID == "session_id"
KEY_TYPE == "type"
KEY_ROLE == "role"
KEY_CONTENT == "content"
KEY_ERROR == "error"
KEY_MESSAGE == "message"
TYPE_MESSAGE == "message"
ROLE_ASSISTANT == "assistant"
DEFAULT_TIMEOUT_SECS == 600
MIN_TIMEOUT_SECS == 1
MAX_TIMEOUT_SECS == 3600
MAX_MESSAGES_LIMIT == 10000
MAX_NON_JSON_LINES == 1000
MAX_STDERR_BYTES == 100000

(***************************************************************************)
(* Bounds of the model.                                                    *)
(***************************************************************************)
\* the lines read from the child's two streams in one run of the model
MaxLines == 3

(***************************************************************************)
(* Option<T>.                                                              *)
(***************************************************************************)
None == << >>
Some(x) == << x >>
IsSome(o) == Len(o) = 1
IsNone(o) == Len(o) = 0
Unwrap(o) == o[1]

(***************************************************************************)
(* Strings.                                                                *)
(***************************************************************************)
CharAt(s, i) == SubSeq(s, i, i)

\* char::is_whitespace: space, tab, line feed, form feed, carriage return,
\* then vertical tab (U+000B), next line (U+0085), no-break space (U+00A0) and
\* ogham space mark (U+1680), written as the characters themselves
IsWhitespace(c) ==
    c \in {" ", "\t", "\n", "\f", "\r", "", "", " ", " "}

RECURSIVE TrimStart(_)
TrimStart(s) ==
    IF Len(s) > 0 /\ IsWhitespace(CharAt(s, 1))
    THEN TrimStart(SubSeq(s, 2, Len(s)))
    ELSE s

RECURSIVE TrimEnd(_)
TrimEnd(s) ==
    IF Len(s) > 0 /\ IsWhitespace(CharAt(s, Len(s)))
    THEN TrimEnd(SubSeq(s, 1, Len(s) - 1))
    ELSE s

\* str::trim
Trim(s) == TrimEnd(TrimStart(s))

\* str::contains
Contains(s, sub) ==
    \E i \in 1..(Len(s) - Len(sub) + 1) : SubSeq(s, i, i + Len(sub) - 1) = sub

\* str::starts_with
StartsWith(s, pre) == Len(pre) <= Len(s) /\ SubSeq(s, 1, Len(pre)) = pre

UpperChars == "ABCDEFGHIJKLMNOPQRSTUVWXYZ"
LowerChars == "abcdefghijklmnopqrstuvwxyz"

LowerChar(c) ==
    IF \E i \in 1..Len(UpperChars) : CharAt(UpperChars, i) = c
    THEN CharAt(LowerChars, CHOOSE i \in 1..Len(UpperChars) : CharAt(UpperChars, i) = c)
    ELSE c

\* str::to_lowercase
RECURSIVE ToLowercase(_)
ToLowercase(s) ==
    IF Len(s) = 0 THEN s
    ELSE LowerChar(CharAt(s, 1)) \o ToLowercase(SubSeq(s, 2, Len(s)))

\* [String]::join
RECURSIVE Join(_, _)
Join(lines, sep) ==
    IF Len(lines) = 0 THEN ""
    ELSE IF Len(lines) = 1 THEN lines[1]
    ELSE lines[1] \o sep \o Join(Tail(lines), sep)

(***************************************************************************)
(* serde_json::Value.  A value is a record [t, s, o]: t its kind, s the    *)
(* text of a string (or the literal of another scalar or of an array), o   *)
(* the members of an object as a set of <<key, value>> pairs.              *)
(***************************************************************************)
JStr(s) == [t |-> "string", s |-> s, o |-> {}]
JNum(lit) == [t |-> "number", s |-> lit, o |-> {}]
JArr(lit) == [t |-> "array", s |-> lit, o |-> {}]
JObj(members) == [t |-> "object", s |-> "", o |-> members]

\* Value::get(key): None unless the value is an object that has the key
Get(v, key) ==
    IF v.t = "object" /\ \E p \in v.o : p[1] = key
    THEN Some((CHOOSE p \in v.o : p[1] = key)[2])
    ELSE None

\* .and_then(|v| v.as_str())
AsStr(ov) == IF IsSome(ov) /\ Unwrap(ov).t = "string" THEN Some(Unwrap(ov).s) ELSE None

\* .and_then(|v| v.as_object())
AsObject(ov) == IF IsSome(ov) /\ Unwrap(ov).t = "object" THEN ov ELSE None

\* .unwrap_or("")
UnwrapOrEmpty(os) == IF IsSome(os) THEN Unwrap(os) ELSE ""

(***************************************************************************)
(* GeminiResult, gemini.rs lines 45-53, as run_with_child constructs it    *)
(* (lines 196-203).                                                        *)
(***************************************************************************)
NewResult(return_all_messages) ==
    [ success |-> TRUE,
      session_id |-> "",
      agent_messages |-> "",
      all_messages |-> << >>,
      return_all_messages |-> return_all_messages,
      error |-> None ]

(***************************************************************************)
(* process_json_line, gemini.rs lines 56-108, rule by rule.                *)
(***************************************************************************)
\* the collection as it would be if a full list dropped its oldest event to
\* take the new one
CollectMessage_Evicts(line_data, result, return_all_messages) ==
    IF return_all_messages
    THEN [result EXCEPT !.all_messages =
             IF Len(@) < MAX_MESSAGES_LIMIT
             THEN Append(@, line_data)
             ELSE Append(Tail(@), line_data)]
    ELSE result

\* lines 59-61: collect the raw event, up to the limit
CollectMessage(line_data, result, return_all_messages) ==
    IF return_all_messages /\ Len(result.all_messages) < MAX_MESSAGES_LIMIT
    THEN [result EXCEPT !.all_messages = Append(@, line_data)]
    ELSE result

\* the extraction as it would be without the is_empty check of line 65
ExtractSessionId_NoEmptyCheck(line_data, result) ==
    LET session_id == AsStr(Get(line_data, KEY_SESSION_ID))
    IN  IF IsSome(session_id)
        THEN [result EXCEPT !.session_id = Unwrap(session_id)]
        ELSE result

\* lines 64-68: a non-empty session_id string overwrites the session id
ExtractSessionId(line_data, result) ==
    LET session_id == AsStr(Get(line_data, KEY_SESSION_ID))
    IN  IF IsSome(session_id) /\ Unwrap(session_id) # ""
        THEN [result EXCEPT !.session_id = Unwrap(session_id)]
        ELSE result

\* lines 71-74
ItemType(line_data) == UnwrapOrEmpty(AsStr(Get(line_data, KEY_TYPE)))

\* lines 75-78
ItemRole(line_data) == UnwrapOrEmpty(AsStr(Get(line_data, KEY_ROLE)))

\* the content as it would be taken if the role were not looked at
AssistantContent_AnyRole(line_data) ==
    IF ItemType(line_data) = TYPE_MESSAGE
    THEN AsStr(Get(line_data, KEY_CONTENT))
    ELSE None

\* lines 80-81: the assistant message's content, when the event is one
AssistantContent(line_data) ==
    IF ItemType(line_data) = TYPE_MESSAGE /\ ItemRole(line_data) = ROLE_ASSISTANT
    THEN AsStr(Get(line_data, KEY_CONTENT))
    ELSE None

\* lines 83-85: the event on which process_json_line returns early
IsDeprecationNotice(line_data) ==
    /\ IsSome(AssistantContent(line_data))
    /\ Unwrap(AssistantContent(line_data)) = PROMPT_DEPRECATION_WARNING

\* the push as it would be without the separator of lines 86-88
PushAgentMessage_NoSeparator(agent_messages, content) == agent_messages \o content

\* lines 86-89: push a newline unless the accumulator is empty, then the content
PushAgentMessage(agent_messages, content) ==
    (IF agent_messages # "" THEN agent_messages \o "\n" ELSE agent_messages) \o content

\* lines 80-91
ExtractAgentMessages(line_data, result) ==
    LET content == AssistantContent(line_data)
    IN  IF IsSome(content) /\ ~IsDeprecationNotice(line_data)
        THEN [result EXCEPT !.agent_messages = PushAgentMessage(@, Unwrap(content))]
        ELSE result

\* lines 94-95
HasExplicitError(line_data) ==
    LET item_type_lower == ToLowercase(ItemType(line_data))
    IN  Contains(item_type_lower, "fail") \/ Contains(item_type_lower, "error")

\* line 96
HasErrorObj(line_data) == IsSome(Get(line_data, KEY_ERROR))

\* line 98: the event is error-bearing
IsErrorEvent(line_data) == HasExplicitError(line_data) \/ HasErrorObj(line_data)

\* lines 100-106: the message the event yields, if any.  The fallback to the
\* top-level message is the else branch of `if let Some(error_obj)`: it is
\* taken only when the error value is absent or not an object.
ErrorMessageOf(line_data) ==
    LET error_obj == AsObject(Get(line_data, KEY_ERROR))
    IN  IF IsSome(error_obj)
        THEN AsStr(Get(Unwrap(error_obj), KEY_MESSAGE))
        ELSE AsStr(Get(line_data, KEY_MESSAGE))

\* lines 102, 105: format!("gemini error: {}", msg)
FormatGeminiError(msg) == "gemini error: " \o msg

\* CheckErrors as it would be if line 99 assigned the outcome of the detection
\* (result.success = !(has_explicit_error || has_error_obj)) on every event
CheckErrors_AssignsFlag(line_data, result) ==
    LET msg == ErrorMessageOf(line_data)
    IN  [result EXCEPT !.success = ~IsErrorEvent(line_data),
                       !.error = IF IsErrorEvent(line_data) /\ IsSome(msg)
                                 THEN Some(FormatGeminiError(Unwrap(msg)))
                                 ELSE @]

\* lines 98-107
CheckErrors(line_data, result) ==
    IF IsErrorEvent(line_data)
    THEN LET msg == ErrorMessageOf(line_data)
         IN  [result EXCEPT !.success = FALSE,
                            !.error = IF IsSome(msg)
                                      THEN Some(FormatGeminiError(Unwrap(msg)))
                                      ELSE @]
    ELSE result

\* lines 56-108: the rules in order; the deprecation notice returns at line 84,
\* before the error check
ProcessJsonLine(line_data, result, return_all_messages) ==
    LET r1 == CollectMessage(line_data, result, return_all_messages)
        r2 == ExtractSessionId(line_data, r1)
        r3 == ExtractAgentMessages(line_data, r2)
    IN  IF IsDeprecationNotice(line_data) THEN r2 ELSE CheckErrors(line_data, r3)

(***************************************************************************)
(* enforce_required_fields, gemini.rs lines 314-342.                       *)
(***************************************************************************)
\* The messages of lines 318, 323 and 328.  The source quotes the field names
\* with backquotes, which the TLA+ lexer does not accept inside a string: they
\* are written as apostrophes here.
ERR_NO_SESSION_ID == "Failed to get 'SESSION_ID' from the gemini session."
ERR_NO_AGENT_MESSAGES == "Failed to get 'agent_messages' from the gemini session.\nYou can try to set 'return_all_messages' to 'True' to get the full information."
ERR_NO_MESSAGES == "Failed to get any messages from the gemini session."

\* the validation as it would be if full capture did not excuse an empty text
ValidationErrors_IgnoresCapture(result) ==
    (IF result.session_id = "" THEN << ERR_NO_SESSION_ID >> ELSE << >>)
    \o (IF result.agent_messages = "" THEN << ERR_NO_AGENT_MESSAGES >> ELSE << >>)

\* lines 315-329: the validation errors, in the order they are pushed
ValidationErrors(result) ==
    (IF result.session_id = "" THEN << ERR_NO_SESSION_ID >> ELSE << >>)
    \o (IF result.agent_messages = "" /\ ~result.return_all_messages
        THEN << ERR_NO_AGENT_MESSAGES >>
        ELSE IF /\ result.agent_messages = ""
                /\ result.return_all_messages
                /\ Len(result.all_messages) = 0
             THEN << ERR_NO_MESSAGES >>
             ELSE << >>)

\* the new error as it would be if it replaced the existing one
AppendValidationError_Replaces(error, new_error) == Some(new_error)

\* lines 333-338: the new error after any non-empty existing one
AppendValidationError(error, new_error) ==
    LET existing_error == IF IsSome(error) /\ Unwrap(error) # "" THEN error ELSE None
    IN  IF IsSome(existing_error)
        THEN Some(Unwrap(existing_error) \o "\n" \o new_error)
        ELSE Some(new_error)

\* lines 314-342
EnforceRequiredFields(result) ==
    LET errors == ValidationErrors(result)
    IN  IF Len(errors) > 0
        THEN [result EXCEPT !.success = FALSE,
                            !.error = AppendValidationError(@, Join(errors, "\n"))]
        ELSE result

(***************************************************************************)
(* The exit status: status.code() is Some(code), or None when a signal     *)
(* ended the child.                                                        *)
(***************************************************************************)
\* success as it would be if every exit with a code counted, whatever the code
StatusSuccess_AnyCode(status) == IsSome(status)

\* ExitStatus::success
StatusSuccess(status) == status = Some(0)

\* format!("{:?}", status.code())
DebugCode(status) ==
    IF IsSome(status) THEN "Some(" \o ToString(Unwrap(status)) \o ")" ELSE "None"

\* line 286
FormatExitCode(status) == "gemini command failed with exit code: " \o DebugCode(status)

\* the composition as it would be with the non-JSON lines before the stderr text
ComposeFailure_NonJsonFirst(error, status, stderr_output, non_json_lines) ==
    LET error_msg == IF IsSome(error) THEN Unwrap(error) ELSE FormatExitCode(status)
        with_lines == IF Len(non_json_lines) > 0
                      THEN error_msg \o "\nNon-JSON output: " \o Join(non_json_lines, "\n")
                      ELSE error_msg
    IN  IF stderr_output # ""
        THEN with_lines \o "\nStderr: " \o stderr_output
        ELSE with_lines

\* lines 283-300: the error of a failed exit
ComposeFailure(error, status, stderr_output, non_json_lines) ==
    LET error_msg == IF IsSome(error) THEN Unwrap(error) ELSE FormatExitCode(status)
        with_stderr == IF stderr_output # ""
                       THEN error_msg \o "\nStderr: " \o stderr_output
                       ELSE error_msg
    IN  IF Len(non_json_lines) > 0
        THEN with_stderr \o "\nNon-JSON output: " \o Join(non_json_lines, "\n")
        ELSE with_stderr

\* the message as it would be without the lines it is about
FormatNoValidJson_NoLines(non_json_lines) ==
    "No valid JSON output received from gemini CLI."

\* lines 305-308
FormatNoValidJson(non_json_lines) ==
    "No valid JSON output received from gemini CLI.\nOutput: " \o Join(non_json_lines, "\n")

\* lines 281-309
HandleExitStatus(result, status, stderr_output, non_json_lines, valid_json_seen) ==
    IF ~StatusSuccess(status)
    THEN [result EXCEPT !.success = FALSE,
                        !.error = Some(ComposeFailure(@, status, stderr_output, non_json_lines))]
    ELSE IF Len(non_json_lines) > 0 /\ ~valid_json_seen
    THEN [result EXCEPT !.success = FALSE,
                        !.error = Some(FormatNoValidJson(non_json_lines))]
    ELSE result

(***************************************************************************)
(* get_default_timeout, gemini.rs lines 27-33.  A parsed u64 is kept as    *)
(* its decimal digits without leading zeros, so that the parse's overflow  *)
(* check is modelled without wide integers.                                *)
(***************************************************************************)
Digits == "0123456789"
U64_MAX_DIGITS == "18446744073709551615"

IsDigit(c) == \E i \in 1..Len(Digits) : CharAt(Digits, i) = c
DigitVal(c) == (CHOOSE i \in 1..Len(Digits) : CharAt(Digits, i) = c) - 1

RECURSIVE StripLeadingZeros(_)
StripLeadingZeros(s) ==
    IF Len(s) > 1 /\ CharAt(s, 1) = "0" THEN StripLeadingZeros(SubSeq(s, 2, Len(s))) ELSE s

\* a > b for two digit strings of the same length
RECURSIVE DigitsGreater(_, _)
DigitsGreater(a, b) ==
    IF Len(a) = 0 THEN FALSE
    ELSE IF DigitVal(CharAt(a, 1)) # DigitVal(CharAt(b, 1))
    THEN DigitVal(CharAt(a, 1)) > DigitVal(CharAt(b, 1))
    ELSE DigitsGreater(SubSeq(a, 2, Len(a)), SubSeq(b, 2, Len(b)))

\* str::parse::<u64>: an optional '+', then one or more digits, no overflow
ParseU64(s) ==
    LET body == IF Len(s) > 0 /\ CharAt(s, 1) = "+" THEN SubSeq(s, 2, Len(s)) ELSE s
        digits == StripLeadingZeros(body)
    IN  IF Len(body) = 0 \/ \E i \in 1..Len(body) : ~IsDigit(CharAt(body, i))
        THEN None
        ELSE IF \/ Len(digits) > Len(U64_MAX_DIGITS)
                \/ Len(digits) = Len(U64_MAX_DIGITS) /\ DigitsGreater(digits, U64_MAX_DIGITS)
        THEN None
        ELSE Some(digits)

\* the number a short digit string denotes
RECURSIVE DigitsToNat(_)
DigitsToNat(digits) ==
    IF Len(digits) = 0 THEN 0
    ELSE 10 * DigitsToNat(SubSeq(digits, 1, Len(digits) - 1)) + DigitVal(CharAt(digits, Len(digits)))

\* the range check as it would be with an exclusive range (MIN..MAX)
TimeoutInRange_Exclusive(t) == MIN_TIMEOUT_SECS <= t /\ t < MAX_TIMEOUT_SECS

\* (MIN_TIMEOUT_SECS..=MAX_TIMEOUT_SECS).contains(&t), lines 31 and 151
TimeoutInRange(t) == MIN_TIMEOUT_SECS <= t /\ t <= MAX_TIMEOUT_SECS

\* the default as it would be if the value were parsed untrimmed
GetDefaultTimeout_NoTrim(env_value) ==
    LET parsed == IF IsSome(env_value) THEN ParseU64(Unwrap(env_value)) ELSE None
    IN  IF /\ IsSome(parsed)
           /\ Len(Unwrap(parsed)) <= 4
           /\ TimeoutInRange(DigitsToNat(Unwrap(parsed)))
        THEN DigitsToNat(Unwrap(parsed))
        ELSE DEFAULT_TIMEOUT_SECS

\* lines 27-33; env_value is std::env::var(ENV_DEFAULT_TIMEOUT).ok()
GetDefaultTimeout(env_value) ==
    LET parsed == IF IsSome(env_value) THEN ParseU64(Trim(Unwrap(env_value))) ELSE None
    IN  IF /\ IsSome(parsed)
           /\ Len(Unwrap(parsed)) <= 4
           /\ TimeoutInRange(DigitsToNat(Unwrap(parsed)))
        THEN DigitsToNat(Unwrap(parsed))
        ELSE DEFAULT_TIMEOUT_SECS

(***************************************************************************)
(* serde_json::from_str on the stdout lines of the model: the texts below  *)
(* decode to the values beside them, every other text of the model is not  *)
(* JSON.                                                                   *)
(***************************************************************************)
MsgEvent(role, content) ==
    JObj({ <<KEY_TYPE, JStr(TYPE_MESSAGE)>>, <<KEY_ROLE, JStr(role)>>,
           <<KEY_CONTENT, JStr(content)>> })

JsonTexts ==
    { << "{\"session_id\":\"s1\"}", JObj({ <<KEY_SESSION_ID, JStr("s1")>> }) >>,
      << "{\"session_id\":\"s2\"}", JObj({ <<KEY_SESSION_ID, JStr("s2")>> }) >>,
      << "{\"session_id\":\"\"}", JObj({ <<KEY_SESSION_ID, JStr("")>> }) >>,
      << "{\"session_id\":7}", JObj({ <<KEY_SESSION_ID, JNum("7")>> }) >>,
      << "{\"type\":\"message\",\"role\":\"assistant\",\"content\":\"hello\"}",
         MsgEvent("assistant", "hello") >>,
      << "{\"type\":\"message\",\"role\":\"assistant\",\"content\":\"bye\"}",
         MsgEvent("assistant", "bye") >>,
      << "{\"type\":\"message\",\"role\":\"assistant\",\"content\":\"\"}",
         MsgEvent("assistant", "") >>,
      << "{\"type\":\"message\",\"role\":\"assistant\",\"content\":\"The --prompt (-p) flag has been deprecated\"}",
         MsgEvent("assistant", PROMPT_DEPRECATION_WARNING) >>,
      << "{\"type\":\"message\",\"role\":\"assistant\",\"content\":\"The --prompt (-p) flag has been deprecated\",\"error\":{\"message\":\"boom\"}}",
         JObj({ <<KEY_TYPE, JStr(TYPE_MESSAGE)>>, <<KEY_ROLE, JStr(ROLE_ASSISTANT)>>,
                <<KEY_CONTENT, JStr(PROMPT_DEPRECATION_WARNING)>>,
                <<KEY_ERROR, JObj({ <<KEY_MESSAGE, JStr("boom")>> })>> }) >>,
      << "{\"type\":\"message\",\"role\":\"user\",\"content\":\"hi\"}",
         MsgEvent("user", "hi") >>,
      << "{\"type\":\"message\",\"role\":\"assistant\",\"content\":5}",
         JObj({ <<KEY_TYPE, JStr(TYPE_MESSAGE)>>, <<KEY_ROLE, JStr(ROLE_ASSISTANT)>>,
                <<KEY_CONTENT, JNum("5")>> }) >>,
      << "{\"type\":\"error\"}", JObj({ <<KEY_TYPE, JStr("error")>> }) >>,
      << "{\"type\":\"Tool_FAILED\",\"message\":\"top\"}",
         JObj({ <<KEY_TYPE, JStr("Tool_FAILED")>>, <<KEY_MESSAGE, JStr("top")>> }) >>,
      << "{\"error\":{\"message\":\"boom\"}}",
         JObj({ <<KEY_ERROR, JObj({ <<KEY_MESSAGE, JStr("boom")>> })>> }) >>,
      << "{\"error\":\"bad\",\"message\":\"top\"}",
         JObj({ <<KEY_ERROR, JStr("bad")>>, <<KEY_MESSAGE, JStr("top")>> }) >>,
      << "{\"error\":{\"code\":1},\"message\":\"top\"}",
         JObj({ <<KEY_ERROR, JObj({ <<"code", JNum("1")>> })>>,
                <<KEY_MESSAGE, JStr("top")>> }) >>,
      << "{\"type\":\"tool_use\"}", JObj({ <<KEY_TYPE, JStr("tool_use")>> }) >>,
      << "0", JNum("0") >>,
      << "[1]", JArr("[1]") >> }

\* serde_json::from_str(trimmed), line 227
FromStr(text) ==
    IF \E p \in JsonTexts : p[1] = text
    THEN Some((CHOOSE p \in JsonTexts : p[1] = text)[2])
    ELSE None

(***************************************************************************)
(* The inputs of the model.                                                *)
(***************************************************************************)
\* Options.prompt
Prompts == { "hi", "", " \f\t " }
\* Options.timeout_secs
TimeoutSecs == { None, Some(0), Some(1), Some(3600), Some(3601) }
\* GEMINI_DEFAULT_TIMEOUT as std::env::var(..).ok() reads it
EnvValues == { None, Some(" 300 "), Some("abc") }
\* the lines the child writes to stdout in a whole run
StdoutLines ==
    { "{\"session_id\":\"s1\"}",
      "{\"type\":\"message\",\"role\":\"assistant\",\"content\":\"hello\"}",
      "{\"type\":\"error\"}",
      " {\"error\":{\"message\":\"boom\"}}",
      "{\"type\":\"message\",\"role\":\"assistant\",\"content\":\"The --prompt (-p) flag has been deprecated\",\"error\":{\"message\":\"boom\"}}",
      "not json ",
      "  " }
\* the last bytes of the child's stdout, before the end of the stream and
\* without a line feed: an event, a line that is no JSON, blanks, or nothing
PartialLines == { "{\"session_id\":\"s1\"}", "not json ", "  ", "" }
\* the lines the child writes to stderr
StderrLines == { "warn", "" }
\* the child's exit statuses: status.code()
ExitStatuses == { Some(0), Some(1), None }

(***************************************************************************)
(* The state of one invocation of run, gemini.rs lines 142-312.            *)
(***************************************************************************)
VARIABLES
    pc,               \* where run is: start, spawn, drain, wait, timeout_kill, timeout_wait, done
    opts,             \* the Options run was called with
    timeout_duration, \* line 160, in seconds; None until it is computed
    result,           \* run_with_child's GeminiResult
    stderr_output,    \* line 208
    stderr_truncated, \* line 209
    non_json_lines,   \* line 210
    valid_json_seen,  \* line 211
    stdout_closed,    \* line 212
    stderr_closed,    \* line 213
    child,            \* the child process: none, running, exited (not yet waited for), reaped
    exit_status,      \* the status the child exited with; None while it runs
    kill_sent,        \* a kill has been sent to the child
    ret,              \* what run returned: [kind |-> pending | ok | err, error |-> text]
    decoded,          \* history: the events decoded from stdout so far, in order
    deadline_expired, \* history: the timeout of line 168 has fired
    stdout_read,      \* the stdout lines read in this run of the model
    stderr_read,      \* the stderr lines read in this run of the model
    last_line,        \* history: the stdout line read last, as it was read
    io_failures,      \* history: the streams whose read has failed
    env_read,         \* history: what line 161 read from the environment
    stdout_partial    \* history: the stdout line read last had no terminator and
                      \* was the end of the stream's bytes

vars == << pc, opts, timeout_duration, result, stderr_output, stderr_truncated,
           non_json_lines, valid_json_seen, stdout_closed, stderr_closed, child,
           exit_status, kill_sent, ret, decoded, deadline_expired, stdout_read,
           stderr_read, last_line, io_failures, env_read, stdout_partial >>

\* the history of the reads
histVars == << last_line, io_failures, env_read, stdout_partial >>

\* the locals of run_with_child, lines 196-213
drainVars == << result, stderr_output, stderr_truncated, non_json_lines,
                valid_json_seen, stdout_closed, stderr_closed, decoded >>

Pending == [kind |-> "pending", error |-> ""]
RetOk == [kind |-> "ok", error |-> ""]
RetErr(msg) == [kind |-> "err", error |-> msg]

ERR_EMPTY_PROMPT == "Prompt must be a non-empty, non-whitespace string"
ERR_SPAWN == "Failed to spawn gemini command"
ERR_READ_STDOUT == "Failed to read from stdout"
ERR_WAIT == "Failed to wait for gemini command"

\* lines 152-156
FormatTimeoutRange ==
    "timeout_secs must be between " \o ToString(MIN_TIMEOUT_SECS) \o " and "
        \o ToString(MAX_TIMEOUT_SECS) \o " seconds"

\* lines 179-182
FormatTimedOut(secs) == "Gemini command timed out after " \o ToString(secs) \o " seconds"

\* a call of run: the request is any of the model's, nothing has happened yet
Init ==
    /\ pc = "start"
    /\ opts \in [ prompt : Prompts, timeout_secs : TimeoutSecs,
                  return_all_messages : BOOLEAN ]
    /\ timeout_duration = None
    /\ result = NewResult(FALSE)
    /\ stderr_output = ""
    /\ stderr_truncated = FALSE
    /\ non_json_lines = << >>
    /\ valid_json_seen = FALSE
    /\ stdout_closed = FALSE
    /\ stderr_closed = FALSE
    /\ child = "none"
    /\ exit_status = None
    /\ kill_sent = FALSE
    /\ ret = Pending
    /\ decoded = << >>
    /\ deadline_expired = FALSE
    /\ stdout_read = 0
    /\ stderr_read = 0
    /\ last_line = None
    /\ io_failures = { }
    /\ env_read = None
    /\ stdout_partial = FALSE

\* the drop of the child handle as it would be without kill_on_drop(true)
DropChild_NoKill == UNCHANGED << kill_sent, child, exit_status >>

\* the child handle is dropped with kill_on_drop (line 165): a child that has
\* not been waited for is sent a kill and polled once for its exit status. A
\* child that had exited is reaped by that poll; a child that was running is
\* reaped by it or not, as the kill and the poll race
DropChild ==
    /\ kill_sent' = (kill_sent \/ child \in {"running", "exited"})
    /\ child' \in (CASE child = "running" -> {"exited", "reaped"}
                    [] child = "exited" -> {"reaped"}
                    [] OTHER -> {child})
    /\ exit_status' = IF child = "running" THEN Some(None) ELSE exit_status

\* lines 144-158: the request is validated before anything else
ValidationError(o) ==
    IF Trim(o.prompt) = "" THEN Some(ERR_EMPTY_PROMPT)
    ELSE IF IsSome(o.timeout_secs) /\ ~TimeoutInRange(Unwrap(o.timeout_secs))
    THEN Some(FormatTimeoutRange)
    ELSE None

Validate ==
    /\ pc = "start"
    /\ IF IsSome(ValidationError(opts))
       THEN /\ ret' = RetErr(Unwrap(ValidationError(opts)))
            /\ pc' = "done"
       ELSE /\ ret' = ret
            /\ pc' = "spawn"
    /\ UNCHANGED << opts, timeout_duration, drainVars, child, exit_status, kill_sent,
                    deadline_expired, stdout_read, stderr_read,
                    histVars >>

\* lines 160-161
TimeoutDuration(o, env_value) ==
    IF IsSome(o.timeout_secs) THEN Unwrap(o.timeout_secs) ELSE GetDefaultTimeout(env_value)

\* line 161: unwrap_or_else reads the environment only for a request without
\* a timeout
ReadEnv(o, env_value) == IF IsSome(o.timeout_secs) THEN None ELSE Some(env_value)

\* lines 160-161 with the environment as it is at the call
ComputeDeadline(env_value) ==
    /\ timeout_duration' = Some(TimeoutDuration(opts, env_value))
    /\ env_read' = ReadEnv(opts, env_value)

\* lines 160-170 and 193-213: the deadline is computed, the child is spawned
\* and run_with_child sets up its locals
SpawnChild(env_value) ==
    /\ pc = "spawn"
    /\ ComputeDeadline(env_value)
    /\ child' = "running"
    /\ result' = NewResult(opts.return_all_messages)
    /\ pc' = "drain"
    /\ UNCHANGED << opts, stderr_output, stderr_truncated, non_json_lines,
                    valid_json_seen, stdout_closed, stderr_closed, exit_status,
                    kill_sent, ret, decoded, deadline_expired, stdout_read,
                    stderr_read,
                    last_line, io_failures, stdout_partial >>

\* the spawn, whatever the environment holds
Spawn == \E env_value \in EnvValues : SpawnChild(env_value)

\* the failed spawn as it would be if its error were noted and run went on
\* into the loop
SpawnFail_Continues ==
    /\ pc = "spawn"
    /\ \E env_value \in EnvValues : ComputeDeadline(env_value)
    /\ ret' = RetErr(ERR_SPAWN)
    /\ pc' = "drain"
    /\ UNCHANGED << opts, drainVars, child, exit_status, kill_sent, deadline_expired,
                    stdout_read, stderr_read, last_line, io_failures, stdout_partial >>

\* line 166: cmd.spawn() fails
FailSpawn(env_value) ==
    /\ pc = "spawn"
    /\ ComputeDeadline(env_value)
    /\ ret' = RetErr(ERR_SPAWN)
    /\ pc' = "done"
    /\ UNCHANGED << opts, drainVars, child, exit_status, kill_sent, deadline_expired,
                    stdout_read, stderr_read,
                    last_line, io_failures, stdout_partial >>

\* the failed spawn, whatever the environment holds
SpawnFail == \E env_value \in EnvValues : FailSpawn(env_value)

\* the loop as it would be if it ended when either stream had closed
AfterLine_EitherClosed(out_closed, err_closed) ==
    IF out_closed \/ err_closed THEN "wait" ELSE "drain"

\* line 214: the loop goes on while a stream is open, then line 276 waits
AfterLine(out_closed, err_closed) == IF out_closed /\ err_closed THEN "wait" ELSE "drain"

\* the push as it would be with the cap compared inclusively
PushNonJson_Inclusive(lines, trimmed) ==
    IF Len(lines) <= MAX_NON_JSON_LINES THEN Append(lines, trimmed) ELSE lines

\* lines 233-235: the capped list of the lines that did not decode
PushNonJson(lines, trimmed) ==
    IF Len(lines) < MAX_NON_JSON_LINES THEN Append(lines, trimmed) ELSE lines

\* the line without the carriage return that preceded its line feed
StripCr(line) ==
    IF Len(line) > 0 /\ CharAt(line, Len(line)) = "\r"
    THEN SubSeq(line, 1, Len(line) - 1)
    ELSE line

\* next_line as it would be if a last line without terminator were dropped
\* and reported as the end of the stream
NextLine_DropsPartial(line, terminated) ==
    IF terminated THEN Some(StripCr(line)) ELSE None

\* lines 205 and 216: Lines::next_line on a stream whose next bytes are line,
\* followed by a line feed (terminated) or by the end of the stream.  A line
\* before a line feed is yielded without it and without a carriage return
\* before it; the bytes before the end of the stream are yielded as a last
\* line; None is yielded when the stream ends with no byte left
NextLine(line, terminated) ==
    IF terminated THEN Some(StripCr(line))
    ELSE IF line # "" THEN Some(line)
    ELSE None

\* lines 216-246: one pass of the stdout branch, on what next_line yields for
\* the next bytes of the stream.  stdout_partial records that the stream has
\* ended in bytes without a line feed and that they were consumed: only the
\* end of the stream can follow
ReadStdout(line, terminated) ==
    LET next == NextLine(line, terminated)
    IN  /\ pc = "drain"
        /\ ~stdout_closed
        /\ stdout_partial => (line = "" /\ ~terminated)
        /\ stdout_partial' = (stdout_partial \/ (~terminated /\ line # ""))
        /\ IF IsNone(next)
           THEN /\ stdout_closed' = TRUE
                /\ pc' = AfterLine(TRUE, stderr_closed)
                /\ UNCHANGED << result, non_json_lines, valid_json_seen, decoded,
                                last_line, stdout_read >>
           ELSE LET trimmed == Trim(Unwrap(next))
                    parsed == FromStr(trimmed)
                IN  /\ stdout_read + stderr_read < MaxLines
                    /\ stdout_read' = stdout_read + 1
                    /\ last_line' = next
                    /\ UNCHANGED << pc, stdout_closed >>
                    /\ IF trimmed = ""
                       THEN UNCHANGED << result, non_json_lines, valid_json_seen,
                                         decoded >>
                       ELSE IF IsSome(parsed)
                       THEN /\ valid_json_seen' = TRUE
                            /\ result' = ProcessJsonLine(Unwrap(parsed), result,
                                                         opts.return_all_messages)
                            /\ decoded' = Append(decoded, Unwrap(parsed))
                            /\ UNCHANGED non_json_lines
                       ELSE /\ non_json_lines' = PushNonJson(non_json_lines, trimmed)
                            /\ UNCHANGED << result, valid_json_seen, decoded >>
        /\ UNCHANGED << opts, timeout_duration, stderr_output, stderr_truncated,
                        stderr_closed, child, exit_status, kill_sent, ret,
                        deadline_expired, stderr_read, io_failures, env_read >>

\* lines 216-243: one stdout line, terminated
ReadStdoutLine(line) == ReadStdout(line, TRUE)

StdoutLine == \E line \in StdoutLines : ReadStdoutLine(line)

\* the child's last stdout line, written without a terminator before the end
\* of the stream
StdoutPartialLine == \E line \in PartialLines : ReadStdout(line, FALSE)

\* line 244: stdout signals end-of-stream
StdoutEof ==
    /\ pc = "drain"
    /\ ~stdout_closed
    /\ stdout_closed' = TRUE
    /\ pc' = AfterLine(TRUE, stderr_closed)
    /\ UNCHANGED << opts, timeout_duration, result, stderr_output, stderr_truncated,
                    non_json_lines, valid_json_seen, stderr_closed, child, exit_status,
                    kill_sent, ret, decoded, deadline_expired, stdout_read,
                    stderr_read,
                    histVars >>

\* the stdout failure as it would be if it were handled as the stderr one is:
\* the stream counts as closed and the loop goes on
StdoutReadError_Swallowed ==
    /\ pc = "drain"
    /\ ~stdout_closed
    /\ io_failures' = io_failures \cup {"stdout"}
    /\ stdout_closed' = TRUE
    /\ pc' = AfterLine(TRUE, stderr_closed)
    /\ UNCHANGED << opts, timeout_duration, result, stderr_output, stderr_truncated,
                    non_json_lines, valid_json_seen, stderr_closed, child, exit_status,
                    kill_sent, ret, decoded, deadline_expired, stdout_read,
                    stderr_read, last_line, env_read, stdout_partial >>

\* line 217: reading stdout fails; run_with_child returns the error and run
\* drops the child
StdoutReadError ==
    /\ pc = "drain"
    /\ ~stdout_closed
    /\ io_failures' = io_failures \cup {"stdout"}
    /\ ret' = RetErr(ERR_READ_STDOUT)
    /\ pc' = "done"
    /\ DropChild
    /\ UNCHANGED << opts, timeout_duration, drainVars, deadline_expired, stdout_read,
                    stderr_read,
                    last_line, env_read, stdout_partial >>

\* lines 251-263: the capped stderr buffer after one more line
PushStderr(output, truncated, line) ==
    IF Len(output) < MAX_STDERR_BYTES /\ ~truncated
    THEN LET sep == IF output # "" THEN output \o "\n" ELSE output
             remaining == MAX_STDERR_BYTES - Len(sep)
         IN  IF Len(line) <= remaining
             THEN [output |-> sep \o line, truncated |-> truncated]
             ELSE [output |-> sep \o SubSeq(line, 1, remaining) \o "\n... (stderr truncated)",
                   truncated |-> TRUE]
    ELSE [output |-> output, truncated |-> truncated]

\* the stderr line as it would be handled if output on stderr failed the result
ReadStderrLine_FailsResult(line) ==
    /\ pc = "drain"
    /\ ~stderr_closed
    /\ stdout_read + stderr_read < MaxLines
    /\ stderr_read' = stderr_read + 1
    /\ stderr_output' = PushStderr(stderr_output, stderr_truncated, line).output
    /\ stderr_truncated' = PushStderr(stderr_output, stderr_truncated, line).truncated
    /\ result' = [result EXCEPT !.success = FALSE]
    /\ UNCHANGED << pc, opts, timeout_duration, non_json_lines, valid_json_seen,
                    stdout_closed, stderr_closed, child, exit_status, kill_sent, ret,
                    decoded, deadline_expired, stdout_read, histVars >>

\* lines 247-264: one stderr line
ReadStderrLine(line) ==
    /\ pc = "drain"
    /\ ~stderr_closed
    /\ stdout_read + stderr_read < MaxLines
    /\ stderr_read' = stderr_read + 1
    /\ stderr_output' = PushStderr(stderr_output, stderr_truncated, line).output
    /\ stderr_truncated' = PushStderr(stderr_output, stderr_truncated, line).truncated
    /\ UNCHANGED << pc, opts, timeout_duration, result, non_json_lines, valid_json_seen,
                    stdout_closed, stderr_closed, child, exit_status, kill_sent, ret,
                    decoded, deadline_expired, stdout_read,
                    histVars >>

StderrLine == \E line \in StderrLines : ReadStderrLine(line)

\* line 265: stderr signals end-of-stream
StderrEof ==
    /\ pc = "drain"
    /\ ~stderr_closed
    /\ stderr_closed' = TRUE
    /\ pc' = AfterLine(stdout_closed, TRUE)
    /\ UNCHANGED << opts, timeout_duration, result, stderr_output, stderr_truncated,
                    non_json_lines, valid_json_seen, stdout_closed, child, exit_status,
                    kill_sent, ret, decoded, deadline_expired, stdout_read,
                    stderr_read,
                    histVars >>

\* lines 266-269: reading stderr fails; a warning is printed, the stream
\* counts as closed and the loop goes on
StderrReadError ==
    /\ pc = "drain"
    /\ ~stderr_closed
    /\ io_failures' = io_failures \cup {"stderr"}
    /\ stderr_closed' = TRUE
    /\ pc' = AfterLine(stdout_closed, TRUE)
    /\ UNCHANGED << opts, timeout_duration, result, stderr_output, stderr_truncated,
                    non_json_lines, valid_json_seen, stdout_closed, child, exit_status,
                    kill_sent, ret, decoded, deadline_expired, stdout_read,
                    stderr_read, last_line, env_read, stdout_partial >>

\* the child exits by itself, with any status
ChildExit ==
    /\ child = "running"
    /\ pc \in {"drain", "wait"}
    /\ child' = "exited"
    /\ \E status \in ExitStatuses : exit_status' = Some(status)
    /\ UNCHANGED << pc, opts, timeout_duration, drainVars, kill_sent, ret,
                    deadline_expired, stdout_read, stderr_read,
                    histVars >>

\* lines 276-311: the wait returns the exit status; the result is completed,
\* validated and returned
WaitExit ==
    /\ pc = "wait"
    /\ child = "exited"
    /\ child' = "reaped"
    /\ result' = EnforceRequiredFields(
                     HandleExitStatus(result, Unwrap(exit_status), stderr_output,
                                      non_json_lines, valid_json_seen))
    /\ ret' = RetOk
    /\ pc' = "done"
    /\ UNCHANGED << opts, timeout_duration, stderr_output, stderr_truncated,
                    non_json_lines, valid_json_seen, stdout_closed, stderr_closed,
                    exit_status, kill_sent, decoded, deadline_expired, stdout_read,
                    stderr_read,
                    histVars >>

\* line 279: the wait fails; run returns the error and drops the child
WaitError ==
    /\ pc = "wait"
    /\ ret' = RetErr(ERR_WAIT)
    /\ pc' = "done"
    /\ DropChild
    /\ UNCHANGED << opts, timeout_duration, drainVars, deadline_expired, stdout_read,
                    stderr_read,
                    histVars >>

\* run as it would be without the timeout of line 168: the deadline never
\* interrupts run_with_child
Timeout_NoDeadline ==
    /\ pc = "no deadline"
    /\ UNCHANGED vars

\* lines 168-175: the deadline expires while run_with_child is suspended (on a
\* line of either stream, or on the exit status); its future is dropped
Timeout ==
    /\ pc \in {"drain", "wait"}
    /\ deadline_expired' = TRUE
    /\ pc' = "timeout_kill"
    /\ UNCHANGED << opts, timeout_duration, drainVars, child, exit_status, kill_sent,
                    ret, stdout_read, stderr_read,
                    histVars >>

\* the timeout branch as it would be without line 177: no kill before the wait
TimeoutKill_NoKill ==
    /\ pc = "timeout_kill"
    /\ child' = IF child = "running" THEN "exited" ELSE child
    /\ exit_status' = IF child = "running" THEN Some(Some(0)) ELSE exit_status
    /\ pc' = "timeout_wait"
    /\ UNCHANGED << opts, timeout_duration, drainVars, kill_sent, ret, deadline_expired,
                    stdout_read, stderr_read,
                    histVars >>

\* line 177: child.kill().await
TimeoutKill ==
    /\ pc = "timeout_kill"
    /\ kill_sent' = TRUE
    /\ child' = IF child = "running" THEN "exited" ELSE child
    /\ exit_status' = IF child = "running" THEN Some(None) ELSE exit_status
    /\ pc' = "timeout_wait"
    /\ UNCHANGED << opts, timeout_duration, drainVars, ret, deadline_expired,
                    stdout_read, stderr_read,
                    histVars >>

\* the timeout branch as it would be if it salvaged what had been aggregated
TimeoutWait_Salvage ==
    /\ pc = "timeout_wait"
    /\ child = "exited"
    /\ child' = "reaped"
    /\ ret' = RetOk
    /\ pc' = "done"
    /\ UNCHANGED << opts, timeout_duration, drainVars, exit_status, kill_sent,
                    deadline_expired, stdout_read, stderr_read,
                    histVars >>

\* lines 178-182: child.wait().await, then the timeout error
TimeoutWait ==
    /\ pc = "timeout_wait"
    /\ child = "exited"
    /\ child' = "reaped"
    /\ ret' = RetErr(FormatTimedOut(Unwrap(timeout_duration)))
    /\ pc' = "done"
    /\ UNCHANGED << opts, timeout_duration, drainVars, exit_status, kill_sent,
                    deadline_expired, stdout_read, stderr_read,
                    histVars >>

Next ==
    \/ Validate
    \/ Spawn
    \/ SpawnFail
    \/ StdoutLine
    \/ StdoutPartialLine
    \/ StdoutEof
    \/ StdoutReadError
    \/ StderrLine
    \/ StderrEof
    \/ StderrReadError
    \/ ChildExit
    \/ WaitExit
    \/ WaitError
    \/ Timeout
    \/ TimeoutKill
    \/ TimeoutWait

Spec == Init /\ [][Next]_vars

\* run under the scheduling the runtime gives it: the steps of run's own code
\* (validation, spawn, kill, wait after the kill) are taken when they can be,
\* and the timer of line 168 fires if run_with_child has not returned; the
\* child is under no obligation to write, to close its streams or to exit
Fairness ==
    /\ WF_vars(Validate)
    /\ WF_vars(Spawn \/ SpawnFail)
    /\ WF_vars(Timeout)
    /\ WF_vars(TimeoutKill)
    /\ WF_vars(TimeoutWait)

\* the calls of run with the shortest deadline, and with one below the range
InitLive == Init /\ opts.timeout_secs \in { Some(0), Some(MIN_TIMEOUT_SECS) }

SpecLive == InitLive /\ [][Next]_vars /\ Fairness

(***************************************************************************)
(* The event interpreter alone: run_with_child's loop over stdout lines of *)
(* every shape the model has, from the state in which the loop starts.     *)
(***************************************************************************)
\* every text that decodes, and texts that do not
InterpLines == { p[1] : p \in JsonTexts } \cup { "not json", "  " }

\* the state of a run in the loop, for a request that passes validation:
\* everything but the result, the two diagnostic buffers and what was decoded
InLoop(return_all_messages) ==
    /\ pc = "drain"
    /\ opts = [ prompt |-> "hi", timeout_secs |-> None,
                return_all_messages |-> return_all_messages ]
    /\ timeout_duration = Some(DEFAULT_TIMEOUT_SECS)
    /\ stdout_closed = FALSE
    /\ stderr_closed = FALSE
    /\ child = "running"
    /\ exit_status = None
    /\ kill_sent = FALSE
    /\ ret = Pending
    /\ deadline_expired = FALSE
    /\ stdout_read = 0
    /\ stderr_read = 0
    /\ last_line = None
    /\ io_failures = { }
    /\ env_read = Some(None)
    /\ stdout_partial = FALSE

\* the state Spawn leaves
Draining(return_all_messages) ==
    /\ InLoop(return_all_messages)
    /\ stderr_output = ""
    /\ stderr_truncated = FALSE
    /\ non_json_lines = << >>

InitInterp ==
    \E return_all_messages \in BOOLEAN :
        /\ Draining(return_all_messages)
        /\ result = NewResult(return_all_messages)
        /\ valid_json_seen = FALSE
        /\ decoded = << >>

InterpLine == \E line \in InterpLines : ReadStdoutLine(line)

SpecInterp == InitInterp /\ [][InterpLine]_vars

(***************************************************************************)
(* The interpreter at the capture limit: the loop from the state it is in  *)
(* after the child has written MAX_MESSAGES_LIMIT - 1 lines "0" (or none). *)
(***************************************************************************)
CapLines == { "0", "{\"session_id\":\"s1\"}", "{\"type\":\"tool_use\"}", "not json" }

Fill(n, v) == [i \in 1..n |-> v]

\* the state of the loop after n lines "0"
InitCap ==
    \E return_all_messages \in BOOLEAN, n \in {0, MAX_MESSAGES_LIMIT - 1} :
        /\ Draining(return_all_messages)
        /\ result = [ NewResult(return_all_messages) EXCEPT
                          !.all_messages = IF return_all_messages
                                           THEN Fill(n, JNum("0"))
                                           ELSE << >> ]
        /\ valid_json_seen = (n > 0)
        /\ decoded = Fill(n, JNum("0"))

CapLine == \E line \in CapLines : ReadStdoutLine(line)

SpecCap == InitCap /\ [][CapLine]_vars

(***************************************************************************)
(* The loop at the limit of the non-JSON list: from the state it is in     *)
(* after the child has written MAX_NON_JSON_LINES - 1 lines "not json" (or *)
(* none).                                                                  *)
(***************************************************************************)
NonJsonLines == { "not json ", " also not", "  ", "", "0" }

InitNonJson ==
    \E return_all_messages \in BOOLEAN, n \in {0, MAX_NON_JSON_LINES - 1} :
        /\ InLoop(return_all_messages)
        /\ result = NewResult(return_all_messages)
        /\ stderr_output = ""
        /\ stderr_truncated = FALSE
        /\ non_json_lines = Fill(n, "not json")
        /\ valid_json_seen = FALSE
        /\ decoded = << >>

NonJsonLine == \E line \in NonJsonLines : ReadStdoutLine(line)

SpecNonJson == InitNonJson /\ [][NonJsonLine]_vars

(***************************************************************************)
(* The end of stdout at the limit of the non-JSON list: from the same      *)
(* states, the child writes lines with a line feed, then last bytes        *)
(* without one, and the stream ends.                                       *)
(***************************************************************************)
PartialTerminatedLine == \E line \in PartialLines : ReadStdoutLine(line)

PartialNext ==
    \/ PartialTerminatedLine
    \/ StdoutPartialLine
    \/ StdoutEof

SpecPartial == InitNonJson /\ [][PartialNext]_vars

(***************************************************************************)
(* The loop at the limit of the stderr buffer: from the state it is in     *)
(* after the child has written one stderr line of MAX_STDERR_BYTES - 3     *)
(* bytes (or none).                                                        *)
(***************************************************************************)
\* a line of n times s
RECURSIVE Repeat(_, _)
Repeat(s, n) ==
    IF n = 0 THEN ""
    ELSE IF n % 2 = 1 THEN s \o Repeat(s, n - 1)
    ELSE LET half == Repeat(s, n \div 2) IN half \o half

StderrCapLines == { "", "a", "ab", "abc" }

InitStderr ==
    \E return_all_messages \in BOOLEAN, n \in {0, MAX_STDERR_BYTES - 3} :
        /\ InLoop(return_all_messages)
        /\ result = NewResult(return_all_messages)
        /\ stderr_output = Repeat("x", n)
        /\ stderr_truncated = FALSE
        /\ non_json_lines = << >>
        /\ valid_json_seen = FALSE
        /\ decoded = << >>

StderrCapLine == \E line \in StderrCapLines : ReadStderrLine(line)

SpecStderr == InitStderr /\ [][StderrCapLine]_vars

(***************************************************************************)
(* The deadline alone: run up to the spawn, with the environment variable  *)
(* set to each value of test_get_default_timeout_env_var (lines 514-584)   *)
(* one with a sign, and three between other whitespace characters.         *)
(***************************************************************************)
TimeoutEnvValues ==
    { None, Some("300"), Some("1"), Some("3600"), Some("  300  "), Some("invalid"),
      Some("0"), Some("3601"), Some("-100"), Some(""), Some("300.5"), Some("0300"),
      Some("999999999999999999999"), Some("300s"), Some("\t300\t"), Some("\n300\n"),
      Some("+300"), Some("\f300\f"),
      Some("300"), Some(" 300 ") }

TimeoutSpawn == \E env_value \in TimeoutEnvValues : SpawnChild(env_value)

TimeoutSpawnFail == \E env_value \in TimeoutEnvValues : FailSpawn(env_value)

NextTimeout ==
    \/ Validate
    \/ TimeoutSpawn
    \/ TimeoutSpawnFail

SpecTimeout == Init /\ [][NextTimeout]_vars

(***************************************************************************)
(* The claims.                                                             *)
(***************************************************************************)

\* C1: across a whole invocation, once the aggregated result's success flag
\* is false no later step (stdout event, non-JSON line, stderr line, exit
\* status handling, final validation) sets it back to true.
C1_SuccessNeverReverts == [][~result.success => ~result'.success]_vars

\* C1's case: an error event made the result fail, later events, the exit
\* status (success) and the final validation (nothing missing) followed
C1_Witness ==
    /\ pc = "done"
    /\ ret.kind = "ok"
    /\ ~result.success
    /\ Len(decoded) = 3
    /\ IsErrorEvent(decoded[1])
    /\ ~IsErrorEvent(decoded[2])
    /\ exit_status = Some(Some(0))
    /\ ValidationErrors(result) = << >>

\* C2: when the deadline expires at a suspension point (a line of stdout or
\* stderr, or the exit status), run sends the kill first, then waits for the
\* child's exit, and only then returns the timeout error: the wait is never
\* entered before the kill was sent, and the timeout error is never returned
\* while the child is un-killed or un-awaited.
C2_TimeoutKillsThenWaits ==
    /\ pc = "timeout_wait" => kill_sent
    /\ deadline_expired => pc \in {"timeout_kill", "timeout_wait", "done"}
    /\ deadline_expired /\ child = "reaped" => kill_sent
    /\ deadline_expired /\ ret.kind # "pending" =>
           /\ kill_sent
           /\ child = "reaped"
           /\ ret.kind = "err"
           /\ StartsWith(ret.error, "Gemini command timed out after ")
    /\ ret.kind = "err" /\ StartsWith(ret.error, "Gemini command timed out after ") =>
           deadline_expired /\ kill_sent /\ child = "reaped"

\* C2's case: the deadline expired while run waited for the exit status of a
\* child that had closed both streams and was still running
C2_Witness ==
    /\ pc = "done"
    /\ deadline_expired
    /\ stdout_closed /\ stderr_closed
    /\ exit_status = Some(None)
    /\ kill_sent
    /\ child = "reaped"
    /\ ret.kind = "err"

\* C3: when the deadline expires before the drain loop and the exit wait have
\* completed, run returns a timeout error and never an aggregated result,
\* whatever had been accumulated.
C3_TimeoutReturnsNoResult ==
    deadline_expired =>
        /\ ret.kind # "ok"
        /\ pc = "done" => ret = RetErr("Gemini command timed out after "
                                       \o ToString(Unwrap(timeout_duration)) \o " seconds")

\* C3's case: a session id, assistant text and captured events had been
\* aggregated when the deadline expired
C3_Witness ==
    /\ pc = "done"
    /\ deadline_expired
    /\ result.success
    /\ result.session_id = "s1"
    /\ result.agent_messages = "hello"
    /\ Len(result.all_messages) = 2
    /\ ret.kind = "err"

\* C4: a request whose task text is empty after trimming, or whose timeout is
\* present and outside [1, 3600], makes run return a validation error without
\* a child being spawned; a timeout of exactly 1 or 3600 passes validation.
C4_ValidationBeforeSpawn ==
    LET blank == opts.prompt \in {"", " \f\t "}
        t == opts.timeout_secs
        out_of_range == t # None /\ (t[1] < 1 \/ t[1] > 3600)
    IN  /\ blank \/ out_of_range =>
               /\ child = "none"
               /\ pc \in {"start", "done"}
               /\ pc = "done" =>
                      /\ ret.kind = "err"
                      /\ ret.error \in { "Prompt must be a non-empty, non-whitespace string",
                                         "timeout_secs must be between 1 and 3600 seconds" }
        /\ ~blank /\ t \in {Some(1), Some(3600)} /\ pc # "start" =>
               /\ ~Contains(ret.error, "timeout_secs")
               /\ ret.error # "Prompt must be a non-empty, non-whitespace string"
               /\ pc = "spawn" \/ child # "none" \/ ret = RetErr(ERR_SPAWN)

\* C4's case: a timeout of 3601 with a proper task text has been rejected
C4_Witness ==
    /\ pc = "done"
    /\ opts.prompt = "hi"
    /\ opts.timeout_secs = Some(3601)
    /\ ret = RetErr("timeout_secs must be between 1 and 3600 seconds")
    /\ child = "none"

\* C5: every aggregated result run returns with success = false carries a
\* non-empty error description, for every sequence of stdout events, stderr
\* lines and exit status.
C5_FailedResultHasError ==
    ret.kind = "ok" /\ ~result.success => result.error # None /\ result.error[1] # ""

\* C6: whenever the returned result has success = false, its error text
\* includes the captured stderr text, if any, and the captured non-JSON
\* stdout lines, if any, whatever caused the failure.
C6_FailedResultHasDiagnostics ==
    ret.kind = "ok" /\ ~result.success =>
        /\ result.error # None
        /\ stderr_output # "" => Contains(result.error[1], stderr_output)
        /\ \A i \in 1..Len(non_json_lines) : Contains(result.error[1], non_json_lines[i])

\* the assistant message events (type "message", role "assistant") with a
\* string content
C7_IsAssistantText(e) ==
    /\ e.t = "object"
    /\ << "type", JStr("message") >> \in e.o
    /\ << "role", JStr("assistant") >> \in e.o
    /\ \E p \in e.o : p[1] = "content" /\ p[2].t = "string"

C7_Text(e) == (CHOOSE p \in e.o : p[1] = "content")[2].s

\* their contents in arrival order, without the deprecation notice
RECURSIVE C7_Texts(_)
C7_Texts(events) ==
    IF Len(events) = 0 THEN << >>
    ELSE LET e == Head(events)
         IN  (IF C7_IsAssistantText(e)
                 /\ C7_Text(e) # "The --prompt (-p) flag has been deprecated"
              THEN << C7_Text(e) >>
              ELSE << >>) \o C7_Texts(Tail(events))

C7_AllNonEmpty(events) ==
    \A i \in 1..Len(events) : C7_IsAssistantText(events[i]) => C7_Text(events[i]) # ""

\* C7: for any sequence of decoded events in which every assistant message
\* carries non-empty content, the assistant text equals the contents of those
\* messages, without the deprecation notice, joined by single newlines in
\* arrival order, whatever other events are interleaved; at every step the
\* previous accumulator is a prefix of the next.
C7_AssistantTextIsJoin ==
    /\ [](C7_AllNonEmpty(decoded) =>
             result.agent_messages = Join(C7_Texts(decoded), "\n"))
    /\ [][C7_AllNonEmpty(decoded') =>
             StartsWith(result'.agent_messages, result.agent_messages)]_vars

\* C7's case: two assistant messages with another event between them
C7_Witness ==
    /\ Len(decoded) = 3
    /\ C7_IsAssistantText(decoded[1]) /\ C7_Text(decoded[1]) = "hello"
    /\ ~C7_IsAssistantText(decoded[2])
    /\ C7_IsAssistantText(decoded[3]) /\ C7_Text(decoded[3]) = "bye"
    /\ result.agent_messages = "hello\nbye"

\* the events with a non-empty session_id string
C8_HasSessionId(e) ==
    /\ e.t = "object"
    /\ \E p \in e.o : p[1] = "session_id" /\ p[2].t = "string" /\ p[2].s # ""

\* the most recent non-empty session_id string, empty if there is none
RECURSIVE C8_LastSessionId(_)
C8_LastSessionId(events) ==
    IF Len(events) = 0 THEN ""
    ELSE LET e == events[Len(events)]
         IN  IF C8_HasSessionId(e)
             THEN (CHOOSE p \in e.o : p[1] = "session_id")[2].s
             ELSE C8_LastSessionId(SubSeq(events, 1, Len(events) - 1))

\* C8: at every point of the run the session identifier is the most recent
\* non-empty session_id string among the events decoded so far (empty if
\* none); an event whose session_id is missing, empty or not a string never
\* clears or changes it.
C8_SessionIdIsLastNonEmpty ==
    /\ [](result.session_id = C8_LastSessionId(decoded))
    /\ [][Len(decoded') = Len(decoded) + 1 /\ ~C8_HasSessionId(decoded'[Len(decoded')])
             => result'.session_id = result.session_id]_vars

\* C8's case: the identifier was set, replaced, and then met an event with an
\* empty session_id
C8_Witness ==
    /\ Len(decoded) = 3
    /\ decoded[1] = JObj({ << "session_id", JStr("s1") >> })
    /\ decoded[2] = JObj({ << "session_id", JStr("s2") >> })
    /\ decoded[3] = JObj({ << "session_id", JStr("") >> })
    /\ result.session_id = "s2"

\* C9: with full capture, after n decoded events the captured list is exactly
\* the first min(n, 10000) decoded events in arrival order; without it the
\* list stays empty.
C9_CaptureIsCappedPrefix ==
    LET n == Len(decoded)
    IN  result.all_messages =
            IF opts.return_all_messages
            THEN SubSeq(decoded, 1, IF n < 10000 THEN n ELSE 10000)
            ELSE << >>

\* C9's case: events of two shapes arrived after the list had filled up
C9_Witness ==
    /\ opts.return_all_messages
    /\ Len(decoded) = 10002
    /\ decoded[10000] = JObj({ << "session_id", JStr("s1") >> })
    /\ decoded[10001] = JObj({ << "type", JStr("tool_use") >> })
    /\ decoded[10002] = JNum("0")
    /\ Len(result.all_messages) = 10000
    /\ result.all_messages[10000] = decoded[10000]

\* the error the claim composes for a failed exit: the error text extracted
\* from events, else a message naming the exit code; then the stderr text;
\* then the non-JSON lines
C10_Composed ==
    LET code == exit_status[1]
        base == IF result.error # None
                THEN result.error[1]
                ELSE "gemini command failed with exit code: "
                         \o (IF code = None THEN "None"
                             ELSE "Some(" \o ToString(code[1]) \o ")")
        with_stderr == IF stderr_output # ""
                       THEN base \o "\nStderr: " \o stderr_output
                       ELSE base
    IN  IF non_json_lines # << >>
        THEN with_stderr \o "\nNon-JSON output: " \o Join(non_json_lines, "\n")
        ELSE with_stderr

\* C10: if both streams close and the child exits with a failure status, the
\* result is marked failed and its error text is, in this order: the error
\* text extracted from events if there is one, otherwise a generic message
\* naming the exit code; then the captured stderr text if non-empty; then the
\* captured non-JSON lines if any (followed only by what the final
\* validation adds when a required field is missing).
C10_FailedExitComposesError ==
    [][pc = "wait" /\ ret'.kind = "ok" /\ exit_status # Some(Some(0)) =>
          /\ stdout_closed /\ stderr_closed
          /\ ~result'.success
          /\ result'.error # None
          /\ StartsWith(result'.error[1], C10_Composed)
          /\ result.session_id # "" /\ result.agent_messages # "" =>
                 result'.error[1] = C10_Composed
          /\ result'.error[1] \in
                 { C10_Composed,
                   C10_Composed \o "\n" \o Join(ValidationErrors(result), "\n") }]_vars

\* C10's case: a session id and assistant text were extracted, stderr was
\* captured, and the child exited with status 1
C10_Witness ==
    /\ pc = "done"
    /\ ret.kind = "ok"
    /\ exit_status = Some(Some(1))
    /\ result.session_id = "s1"
    /\ result.agent_messages = "hello"
    /\ stderr_output = "warn"
    /\ ~result.success
    /\ result.error = Some("gemini command failed with exit code: Some(1)\nStderr: warn")

\* the child exited with success and no stdout line was decoded; run has
\* returned its result
C11_CleanExitWithoutJson ==
    /\ pc = "done"
    /\ ret.kind = "ok"
    /\ exit_status = Some(Some(0))
    /\ ~valid_json_seen

C11_Message == "No valid JSON output received from gemini CLI."

C11_CarriesMessageAndLines ==
    /\ IsSome(result.error)
    /\ Contains(Unwrap(result.error), C11_Message)
    /\ \A i \in 1..Len(non_json_lines) :
           Contains(Unwrap(result.error), non_json_lines[i])

\* C11 as stated: after a success exit with no stdout line decoded as JSON,
\* whatever stdout carried (non-JSON lines, blank lines only, nothing), the
\* result has failed and its error holds the no-valid-JSON message and the
\* raw non-JSON lines.
C11_NoJsonAlwaysReported ==
    C11_CleanExitWithoutJson => ~result.success /\ C11_CarriesMessageAndLines

\* C11: after a success exit with no stdout line decoded as JSON the result
\* has failed; its error holds the no-valid-JSON message and every raw
\* non-JSON line when at least one non-JSON line was kept, and only the final
\* validation's messages when stdout carried blank lines only or nothing.
C11_NoJsonReportedWithLines ==
    C11_CleanExitWithoutJson =>
        /\ ~result.success
        /\ IsSome(result.error)
        /\ IF Len(non_json_lines) > 0
           THEN C11_CarriesMessageAndLines
           ELSE /\ ~Contains(Unwrap(result.error), C11_Message)
                /\ StartsWith(Unwrap(result.error), "Failed to get")

\* C11's case: noise on stdout, a clean exit, and the message in the result
C11_Witness ==
    /\ C11_CleanExitWithoutJson
    /\ non_json_lines = << "not json" >>
    /\ stdout_read = 2
    /\ Contains(Unwrap(result.error), "Output: not json")

\* the stdout line a step reads
C12_LineRead == Unwrap(last_line')

C12_ReadsNonJson ==
    /\ stdout_read' = stdout_read + 1
    /\ Trim(C12_LineRead) # ""
    /\ IsNone(FromStr(Trim(C12_LineRead)))

C12_ReadsBlank ==
    /\ stdout_read' = stdout_read + 1
    /\ Trim(C12_LineRead) = ""

\* C12: a non-empty stdout line that does not decode leaves the loop running
\* and the result and the valid-JSON flag as they were; it adds one entry to
\* the non-JSON list while the list holds fewer than 1,000 entries and none
\* once it holds 1,000.  A line that is empty after trimming changes nothing.
C12_NonJsonLineOnlyLogged ==
    [][ /\ C12_ReadsNonJson =>
            /\ pc' = "drain"
            /\ ret' = Pending
            /\ result' = result
            /\ valid_json_seen' = valid_json_seen
            /\ decoded' = decoded
            /\ IF Len(non_json_lines) < 1000
               THEN /\ Len(non_json_lines') = Len(non_json_lines) + 1
                    /\ SubSeq(non_json_lines', 1, Len(non_json_lines)) = non_json_lines
                    /\ non_json_lines'[Len(non_json_lines')] = Trim(C12_LineRead)
               ELSE non_json_lines' = non_json_lines
        /\ C12_ReadsBlank =>
            /\ pc' = "drain"
            /\ ret' = Pending
            /\ UNCHANGED drainVars ]_vars

\* C12's case: the list reached 1,000 entries, and a later non-JSON line was
\* read and not kept
C12_Witness ==
    /\ Len(non_json_lines) = 1000
    /\ non_json_lines[1000] = "also not"
    /\ last_line = Some("not json ")
    /\ stdout_read = 3
    /\ pc = "drain"

\* the step in which run_with_child has the exit status and validates
C13_Validates == pc = "wait" /\ pc' = "done" /\ ret'.kind = "ok"

\* the result as the final validation receives it
C13_Received ==
    HandleExitStatus(result, Unwrap(exit_status), stderr_output, non_json_lines,
                     valid_json_seen)

C13_Missing(r) ==
    \/ r.session_id = ""
    \/ /\ r.agent_messages = ""
       /\ ~r.return_all_messages \/ r.all_messages = << >>

\* C13: the final validation forces success = false and adds a message
\* exactly when the session id is empty, or the assistant text is empty and
\* full capture was not requested or captured nothing; otherwise it leaves
\* success and error as it received them.
C13_ValidationFailsExactlyWhenMissing ==
    [][ C13_Validates =>
            IF C13_Missing(C13_Received)
            THEN /\ ~result'.success
                 /\ IsSome(result'.error)
                 /\ result'.error # C13_Received.error
                 /\ Contains(Unwrap(result'.error), "Failed to get")
            ELSE /\ result'.success = C13_Received.success
                 /\ result'.error = C13_Received.error ]_vars

\* C13's case: full capture with events and no assistant text passes the
\* validation untouched
C13_Witness ==
    /\ pc = "done"
    /\ ret.kind = "ok"
    /\ result.return_all_messages
    /\ result.session_id = "s1"
    /\ result.agent_messages = ""
    /\ Len(result.all_messages) > 0
    /\ result.success
    /\ IsNone(result.error)

\* the step of the final validation, and what it is given
C14_Validates == pc = "wait" /\ ret'.kind = "ok"

C14_Received ==
    HandleExitStatus(result, Unwrap(exit_status), stderr_output, non_json_lines,
                     valid_json_seen)

\* the validation messages, newline-joined, in every combination there is
C14_JoinedMessages ==
    { ERR_NO_SESSION_ID, ERR_NO_AGENT_MESSAGES, ERR_NO_MESSAGES,
      ERR_NO_SESSION_ID \o "\n" \o ERR_NO_AGENT_MESSAGES,
      ERR_NO_SESSION_ID \o "\n" \o ERR_NO_MESSAGES }

\* C14: the final validation changes neither the session id nor the
\* assistant text nor the captured events; when it adds messages, a non-empty
\* error already present stays as the leading part of the final error and the
\* validation messages follow it, newline-joined.
C14_ValidationOnlyAppends ==
    [][ C14_Validates =>
            /\ result'.session_id = C14_Received.session_id
            /\ result'.agent_messages = C14_Received.agent_messages
            /\ result'.all_messages = C14_Received.all_messages
            /\ result'.return_all_messages = C14_Received.return_all_messages
            /\ result'.error # C14_Received.error =>
                   \E joined \in C14_JoinedMessages :
                       result'.error =
                           IF IsSome(C14_Received.error) /\ Unwrap(C14_Received.error) # ""
                           THEN Some(Unwrap(C14_Received.error) \o "\n" \o joined)
                           ELSE Some(joined) ]_vars

\* C14's case: a failed exit left an error, the validation found the session
\* id and the text missing and appended both messages
C14_Witness ==
    /\ pc = "done"
    /\ ret.kind = "ok"
    /\ exit_status = Some(Some(1))
    /\ stderr_output = "warn"
    /\ IsSome(result.error)
    /\ StartsWith(Unwrap(result.error),
                  "gemini command failed with exit code: Some(1)\nStderr: warn\nFailed to get")
    /\ Contains(Unwrap(result.error), "agent_messages")

C15_Marker == "\n... (stderr truncated)"

C15_EndsWithMarker ==
    /\ Len(stderr_output) >= Len(C15_Marker)
    /\ SubSeq(stderr_output, Len(stderr_output) - Len(C15_Marker) + 1,
              Len(stderr_output)) = C15_Marker

\* the stderr text in the buffer: the buffer without the marker
C15_CapturedLen ==
    IF C15_EndsWithMarker THEN Len(stderr_output) - Len(C15_Marker) ELSE Len(stderr_output)

\* C15 as stated: the buffer never holds more than 100,000 bytes of stderr
\* text, and once it holds 100,000 it carries the truncation marker, however
\* the bytes were split into lines.
C15_CapHitCarriesMarker ==
    /\ C15_CapturedLen <= 100000
    /\ C15_CapturedLen = 100000 => C15_EndsWithMarker

\* one step of run, as the loop takes it: at most one line, of one stream; a
\* stream that the loop holds closed stays closed and is not read again
C16_OneLineOfAnOpenStream ==
    /\ (stdout_read' + stderr_read') - (stdout_read + stderr_read) \in {0, 1}
    /\ stdout_closed =>
           /\ stdout_closed'
           /\ stdout_read' = stdout_read
           /\ UNCHANGED << decoded, non_json_lines, last_line >>
           /\ "stdout" \in io_failures' => "stdout" \in io_failures
    /\ stderr_closed =>
           /\ stderr_closed'
           /\ stderr_read' = stderr_read
           /\ UNCHANGED << stderr_output, stderr_truncated >>
           /\ "stderr" \in io_failures' => "stderr" \in io_failures

\* the stream has signalled end-of-stream: the loop holds it closed, and not
\* because a read of it failed
C16_StdoutAtEof == stdout_closed /\ "stdout" \notin io_failures

    /\ stderr_output = "warn"
    /\ stdout_read = 2
    /\ pc = "done"
    /\ ret.kind = "ok"
    /\ result.success

C18_SpawnFailed == ret = [kind |-> "err", error |-> "Failed to spawn gemini command"]

\* C18: when the spawn has failed run is over with the spawn error: there is
\* no child, no line of either stream was read and neither stream was seen to
\* close, no event was decoded, the deadline did not run, and the result was
\* never set up.
C18_SpawnFailureReturnsAtOnce ==
    C18_SpawnFailed =>
        /\ pc = "done"
        /\ child = "none"
        /\ IsNone(exit_status)
        /\ ~kill_sent
        /\ stdout_read = 0
        /\ stderr_read = 0
        /\ IsNone(last_line)
        /\ ~stdout_closed
        /\ ~stderr_closed
        /\ io_failures = { }
        /\ decoded = << >>
        /\ ~valid_json_seen
        /\ non_json_lines = << >>
        /\ stderr_output = ""
        /\ ~deadline_expired
        /\ result = [ return_all_messages |-> FALSE, success |-> TRUE, session_id |-> "",
                      agent_messages |-> "", all_messages |-> << >>, error |-> << >> ]

\* C18's case: a valid request with full capture, and the spawn failed
C18_Witness ==
    /\ C18_SpawnFailed
    /\ opts.prompt = "hi"
    /\ opts.return_all_messages
    /\ timeout_duration = Some(3600)

\* the values of the override that are an integer within [1, 3600] once
\* trimmed, with the integer
C19_Overrides ==
    { << "300", 300 >>, << "1", 1 >>, << "3600", 3600 >>, << "  300  ", 300 >>,
      << " 300 ", 300 >>, << "0300", 300 >>, << "\t300\t", 300 >>,
      << "\n300\n", 300 >>, << "+300", 300 >>, << "\f300\f", 300 >>,
      << "300", 300 >>, << " 300 ", 300 >> }

C19_Default(env_value) ==
    IF IsSome(env_value) /\ \E o \in C19_Overrides : o[1] = Unwrap(env_value)
    THEN (CHOOSE o \in C19_Overrides : o[1] = Unwrap(env_value))[2]
    ELSE 600

\* C19: the deadline of a spawned run lies in [1, 3600]; it is the request's
\* timeout when there is one, otherwise the environment override when that is
\* an integer within [1, 3600] once trimmed, otherwise 600: an unset,
\* non-numeric, zero, negative, fractional or too large override gives 600.
C19_DeadlineInRange ==
    child = "running" =>
        /\ IsSome(timeout_duration)
        /\ Unwrap(timeout_duration) \in 1..3600
        /\ IF IsSome(opts.timeout_secs)
           THEN /\ timeout_duration = opts.timeout_secs
                /\ IsNone(env_read)
           ELSE /\ IsSome(env_read)
                /\ Unwrap(timeout_duration) = C19_Default(Unwrap(env_read))

\* C19's case: no timeout in the request, an override padded with blanks
C19_Witness ==
    /\ child = "running"
    /\ IsNone(opts.timeout_secs)
    /\ env_read = Some(Some("  300  "))
    /\ timeout_duration = Some(300)

\* the event a step decodes
C20_Event == decoded'[Len(decoded')]

\* a step decodes an event on which the error check runs and detects an error
C20_Detected ==
    /\ Len(decoded') = Len(decoded) + 1
    /\ ~IsDeprecationNotice(C20_Event)
    /\ IsErrorEvent(C20_Event)

\* the string message of the event's error object, if it has both
C20_ObjectMessage(e) ==
    IF IsSome(AsObject(Get(e, "error")))
    THEN AsStr(Get(Unwrap(Get(e, "error")), "message"))
    ELSE None

C20_TopMessage(e) == AsStr(Get(e, "message"))

\* C20 as stated: on an error-bearing event the description becomes the
\* prefixed message of the error object when that is a string, and in every
\* other case the prefixed top-level message when the event has one.
C20_ErrorMessageFallsBack ==
    [][ C20_Detected =>
            IF IsSome(C20_ObjectMessage(C20_Event))
            THEN result'.error =
                     Some("gemini error: " \o Unwrap(C20_ObjectMessage(C20_Event)))
            ELSE IsSome(C20_TopMessage(C20_Event)) =>
                     result'.error =
                         Some("gemini error: " \o Unwrap(C20_TopMessage(C20_Event))) ]_vars

\* the event carries an error key, or its type contains "fail" or "error" in
\* any letter case
C21_ErrorBearing(e) ==
    \/ IsSome(Get(e, "error"))
    \/ Contains(ToLowercase(UnwrapOrEmpty(AsStr(Get(e, "type")))), "fail")
    \/ Contains(ToLowercase(UnwrapOrEmpty(AsStr(Get(e, "type")))), "error")

\* the message that can be extracted from an event: the string message of
\* its error object, else its top-level string message
C21_Message(e) ==
    IF /\ IsSome(AsObject(Get(e, "error")))
       /\ IsSome(AsStr(Get(Unwrap(Get(e, "error")), "message")))
    THEN AsStr(Get(Unwrap(Get(e, "error")), "message"))
    ELSE AsStr(Get(e, "message"))

\* the positions of the error-bearing events with an extractable message
C21_WithMessage ==
    { i \in 1..Len(decoded) :
          C21_ErrorBearing(decoded[i]) /\ IsSome(C21_Message(decoded[i])) }

C21_Last == CHOOSE i \in C21_WithMessage : \A j \in C21_WithMessage : j <= i

\* C21 as stated: after any sequence of events the error text is the
\* prefixed message of the last error-bearing event that carried an
\* extractable message, and absent when none did; every error-bearing event
\* has failed the result.
C21_LastErrorMessageWins ==
    /\ result.error =
           IF C21_WithMessage = { }
           THEN None
           ELSE Some("gemini error: " \o Unwrap(C21_Message(decoded[C21_Last])))
    /\ (\E i \in 1..Len(decoded) : C21_ErrorBearing(decoded[i])) => ~result.success

\* the event a step decodes
C22_Event == decoded'[Len(decoded')]

C22_TypeOf(e) == UnwrapOrEmpty(AsStr(Get(e, "type")))

\* the event carries an error key, or its type contains "fail" or "error" in
\* any letter case
C22_ErrorBearing(e) ==
    \/ IsSome(Get(e, "error"))
    \/ Contains(ToLowercase(C22_TypeOf(e)), "fail")
    \/ Contains(ToLowercase(C22_TypeOf(e)), "error")

\* C22 as stated: every decoded event that carries an error key or has a
\* failure type marks the result failed, whatever its role and content.
C22_ErrorEventAlwaysFails ==
    [][ (Len(decoded') = Len(decoded) + 1 /\ C22_ErrorBearing(C22_Event))
            => ~result'.success ]_vars

\* the event a step decodes
C23_Event == decoded'[Len(decoded')]

\* an assistant message whose content is the empty string
C23_EmptyAssistantMessage(e) ==
    /\ AsStr(Get(e, "type")) = << "message" >>
    /\ AsStr(Get(e, "role")) = << "assistant" >>
    /\ AsStr(Get(e, "content")) = << "" >>

\* C23 as stated: an assistant message with empty content leaves the
\* assistant text as it was, empty or not; no separator is added for it.
C23_EmptyContentIsNoOp ==
    [][ (Len(decoded') = Len(decoded) + 1 /\ C23_EmptyAssistantMessage(C23_Event))
            => result'.agent_messages = result.agent_messages ]_vars

\* the event a step decodes
C24_Event == decoded'[Len(decoded')]

\* the event has type = "message", role = "assistant" and a string content
C24_HasMarkers(e) ==
    /\ AsStr(Get(e, "type")) = << "message" >>
    /\ AsStr(Get(e, "role")) = << "assistant" >>
    /\ IsSome(AsStr(Get(e, "content")))

\* C24: a decoded event of any shape without the three markers leaves the
\* assistant text unchanged and the loop running; a session id that is absent
\* or not a string leaves the session id unchanged, and the event is still
\* counted as valid JSON.
C24_UnmarkedEventKeepsText ==
    [][ (Len(decoded') = Len(decoded) + 1 /\ ~C24_HasMarkers(C24_Event)) =>
            /\ result'.agent_messages = result.agent_messages
            /\ pc' = "drain"
            /\ ret' = Pending
            /\ valid_json_seen'
            /\ IsNone(AsStr(Get(C24_Event, "session_id"))) =>
                   result'.session_id = result.session_id ]_vars

\* C24's case: an assistant message, then an array and a user message, which
\* left the text as it was
C24_Witness ==
    /\ Len(decoded) = 3
    /\ C24_HasMarkers(decoded[1])
    /\ decoded[2].t = "array"
    /\ decoded[3].t = "object"
    /\ AsStr(Get(decoded[3], "role")) = << "user" >>
    /\ result.agent_messages = "hello"
    /\ pc = "drain"

\* the result after the events of a sequence, from the result the loop starts with
RECURSIVE C25_Aggregate(_, _)
C25_Aggregate(events, return_all_messages) ==
    IF Len(events) = 0
    THEN [ return_all_messages |-> return_all_messages, success |-> TRUE,
           session_id |-> "", agent_messages |-> "", all_messages |-> << >>,
           error |-> << >> ]
    ELSE ProcessJsonLine(events[Len(events)],
                         C25_Aggregate(SubSeq(events, 1, Len(events) - 1),
                                       return_all_messages),
                         return_all_messages)

\* C25: a step that reads a stderr line changes neither the result nor what
\* was gathered from stdout; when the loop has ended the result is what the
\* stdout events alone give, however the stderr lines were interleaved with
\* them; in the loop only a decoded stdout event changes it.
C25_StderrLeavesResultAlone ==
    /\ [](pc = "wait" =>
              result = C25_Aggregate(decoded, opts.return_all_messages))
    /\ [][ /\ stderr_read' # stderr_read =>
                UNCHANGED << result, valid_json_seen, non_json_lines, decoded,
                             stdout_read >>
           /\ (pc = "drain" /\ result' # result) =>
                Len(decoded') = Len(decoded) + 1 /\ stderr_read' = stderr_read ]_vars

\* C25's case: a stderr line was read among two stdout events, and the result
\* is that of the two events
C25_Witness ==
    /\ pc = "wait"
    /\ stderr_read = 1
    /\ stderr_output = "warn"
    /\ Len(decoded) = 2
    /\ result.session_id = "s1"
    /\ result.agent_messages = "hello"
    /\ result.success

\* the loop no longer reads stderr although stderr has not signalled
\* end-of-stream: a read of it failed and the loop holds it closed
C26_StderrOpenUnread == stderr_closed /\ "stderr" \in io_failures

\* C26 as stated: in no state of the loop does run wait on stdout alone while
\* stderr has not signalled end-of-stream and is no longer read.
C26_NeverWaitsOnStdoutAlone ==
    ~(pc = "drain" /\ ~stdout_closed /\ C26_StderrOpenUnread)

\* a step consumes the last bytes of stdout, a line without terminator
C27_ReadsPartialLine == stdout_partial' /\ ~stdout_partial

\* what the loop does with a line it was handed: nothing when the line is
\* blank; the event decoded, counted as valid JSON and interpreted when the
\* line is JSON; else the trimmed line recorded, unless 1,000 are recorded
C27_Handled(line) ==
    LET trimmed == Trim(line)
        event == FromStr(trimmed)
    IN  IF trimmed = ""
        THEN UNCHANGED << decoded, non_json_lines, result, valid_json_seen >>
        ELSE IF IsSome(event)
        THEN /\ decoded' = Append(decoded, Unwrap(event))
             /\ valid_json_seen'
             /\ non_json_lines' = non_json_lines
             /\ result' = ProcessJsonLine(Unwrap(event), result,
                                          opts.return_all_messages)
        ELSE /\ non_json_lines' = IF Len(non_json_lines) < 1000
                                  THEN Append(non_json_lines, trimmed)
                                  ELSE non_json_lines
             /\ UNCHANGED << decoded, result, valid_json_seen >>

\* C27 as stated: a last stdout line without terminator is not emitted: it
\* is neither decoded nor recorded as non-JSON, and the result is unchanged.
C27_PartialLineDropped ==
    [][ C27_ReadsPartialLine =>
            UNCHANGED << decoded, non_json_lines, result, valid_json_seen >> ]_vars

\* C27: last bytes of stdout without terminator are handed to the loop as a
\* line, and every line handed to the loop, with terminator or without, is
\* handled by the same rule: skipped when blank, decoded and interpreted when
\* JSON, else recorded as a non-JSON line while fewer than 1,000 are. The
\* last line does not close stdout; after it nothing is read but the end of
\* the stream.
C27_PartialLineEmitted ==
    /\ [][ C27_ReadsPartialLine =>
               /\ stdout_read' = stdout_read + 1
               /\ IsSome(last_line')
               /\ Unwrap(last_line') # ""
               /\ ~stdout_closed'
               /\ pc' = "drain" ]_vars
    /\ [][ stdout_read' # stdout_read =>
               /\ IsSome(last_line')
               /\ C27_Handled(Unwrap(last_line')) ]_vars
    /\ [][ stdout_partial =>
               /\ stdout_partial'
               /\ UNCHANGED << stdout_read, decoded, non_json_lines,
                               valid_json_seen, last_line >> ]_vars

\* C27's case: 1,000 lines that are no JSON were recorded, then stdout ended
\* with a session event without terminator; the event was decoded and set
\* the session id, and the end of the stream came with the read after it
C27_Witness ==
    /\ stdout_partial
    /\ stdout_closed
    /\ last_line = Some("{\"session_id\":\"s1\"}")
    /\ Len(non_json_lines) = 1000
    /\ Len(decoded) = 1
    /\ valid_json_seen
    /\ result.session_id = "s1"

C28_ErrorBearing(e) ==
    \/ IsSome(Get(e, "error"))
    \/ Contains(ToLowercase(UnwrapOrEmpty(AsStr(Get(e, "type")))), "fail")
    \/ Contains(ToLowercase(UnwrapOrEmpty(AsStr(Get(e, "type")))), "error")

\* the event is dropped before the error detection: the deprecation notice
C28_Dropped(e) ==
    /\ AsStr(Get(e, "type")) = Some("message")
    /\ AsStr(Get(e, "role")) = Some("assistant")
    /\ AsStr(Get(e, "content")) = Some("The --prompt (-p) flag has been deprecated")

\* C28: when run returns a result with success = true, the child exited with
\* success, a stdout line decoded, the session id is not empty, no decoded
\* event was error-bearing (but for those dropped before the detection), the
\* error is absent, and the assistant text is not empty or full capture was
\* asked for and captured an event.
C28_SuccessMeansCleanRun ==
    (pc = "done" /\ ret.kind = "ok" /\ result.success) =>
        /\ exit_status = Some(Some(0))
        /\ valid_json_seen
        /\ Len(decoded) > 0
        /\ result.session_id # ""
        /\ \A i \in 1..Len(decoded) :
               C28_ErrorBearing(decoded[i]) => C28_Dropped(decoded[i])
        /\ IsNone(result.error)
        /\ \/ result.agent_messages # ""
           \/ result.return_all_messages /\ Len(result.all_messages) > 0

\* C28's case: a session event, an assistant message and a deprecation
\* notice with an error key, then a clean exit
C28_Witness ==
    /\ pc = "done"
    /\ ret.kind = "ok"
    /\ result.success
    /\ result.session_id = "s1"
    /\ result.agent_messages = "hello"
    /\ ~result.return_all_messages
    /\ Len(decoded) = 3
    /\ \E i \in 1..3 : C28_ErrorBearing(decoded[i]) /\ C28_Dropped(decoded[i])

\* run has returned after a spawn that succeeded
C29_ReturnedAfterSpawn == pc = "done" /\ child # "none"

\* C29: when run has returned after a successful spawn, the child has exited
\* and its exit status was awaited, or it was sent a kill: by the timeout
\* branch, or by the drop of its handle on the paths that return an error.
C29_ChildNeverLeftRunning ==
    C29_ReturnedAfterSpawn =>
        /\ child = "reaped" \/ kill_sent
        /\ ret.kind = "ok" => child = "reaped"
        /\ deadline_expired => kill_sent /\ child = "reaped"

\* C29's case: the read of stdout failed while the child was running; run
\* returned the error and the drop of the handle killed the child
C29_Witness ==
    /\ C29_ReturnedAfterSpawn
    /\ ret = [kind |-> "err", error |-> "Failed to read from stdout"]
    /\ kill_sent
    /\ exit_status = Some(None)
    /\ child = "exited"

\* C30: every invocation returns, whatever the child does: with the timer
\* firing and a killed child exiting, run reaches its return also when the
\* child never closes its streams, closes them and never exits, or goes on
\* writing.
C30_RunReturns == <>(pc = "done")

\* C30's case: the child wrote lines and never closed its streams nor exited;
\* the deadline expired, the child was killed and run returned
C30_Witness ==
    /\ pc = "done"
    /\ deadline_expired
    /\ ~stdout_closed
    /\ ~stderr_closed
    /\ stdout_read + stderr_read = MaxLines
    /\ exit_status = Some(None)
    /\ ret = [kind |-> "err", error |-> "Gemini command timed out after 1 seconds"]

=============================================================================
